---- MODULE Spec2Model ----
(***************************************************************************)
(* A model of markkurossi/go-libs.  Package tlv: the variable-length        *)
(* integer codec, the bit-packed Tag, Values.Marshal, Unmarshal and        *)
(* Values.Dump.  Package uuid: New and the accessors of variant and        *)
(* version.                                                                *)
(*                                                                         *)
(* Number representation.  Go's uint64, uint32 (Type) and Tag values are   *)
(* modelled as the set of the bit positions that are set (bit 0 is the     *)
(* least significant one), so that masks, shifts and the 35-bit limit of   *)
(* the varint are computed as the code computes them and no value is       *)
(* limited by the width of the model checker's integers.  Bytes of a       *)
(* buffer, offsets and lengths of buffers are ordinary naturals.  A Go     *)
(* slice index i is the sequence index i + 1.                              *)
(***************************************************************************)
EXTENDS Integers, Sequences, FiniteSets, TLC

VARIABLES
    caller,  \* what the caller does: "roundtrip" (encode, then decode the
             \* output) or "decode" (decode a given buffer)
    pc,      \* position of the caller: which call comes next
    ival,    \* marshalInt: the uint64 argument
    data,    \* the byte buffer (the encoders' output, the decoders' input)
    ofs,     \* unmarshalInt: the offset argument
    iret,    \* unmarshalInt: the returned (value, offset, error)
    values,  \* Values.Marshal: the receiver
    mret,    \* Values.Marshal: the returned (bytes, error)
    stack,   \* Unmarshal: the call stack, one frame per nested call
    ret,     \* Unmarshal: the returned (Values, error) of the outermost call
    symtab,  \* Values.Dump: the Symtab argument
    out,     \* Values.Dump: what has been written to the io.Writer
    rnd,     \* uuid.New: what rand.Read gives, the 16 bytes and the error
    uuid     \* uuid.New: the returned (UUID, error)

vars == <<caller, pc, ival, data, ofs, iret, values, mret, stack, ret,
          symtab, out, rnd, uuid>>

----------------------------------------------------------------------------
(* Machine integers as bit sets *)

\* uint64 is 64 bits wide: bits shifted beyond bit 63 are lost.
WordBits == 64

\* uint64(b) for a byte or another small natural b.
U64(n) == {b \in 0..15 : (n \div (2 ^ b)) % 2 = 1}

\* a & b, a | b, a << k, a >> k on uint64.
And(a, b) == a \cap b
Or(a, b) == a \cup b
Shl(a, k) == {b + k : b \in {x \in a : x + k < WordBits}}
Shr(a, k) == {b - k : b \in {x \in a : x >= k}}

\* byte(a): the low eight bits of a, as a byte 0..255.
ByteOf(a) ==
    LET B(i) == IF i \in a THEN 2 ^ i ELSE 0
    IN  B(0) + B(1) + B(2) + B(3) + B(4) + B(5) + B(6) + B(7)

\* Go's slice indexing data[i], 0-based.
At(d, i) == d[i + 1]

----------------------------------------------------------------------------
(* Errors *)

NoError == "nil"
ErrorTruncated == "truncated data"
ErrorEOF == "unexpected EOF"
\* fmt.Errorf("invalid integer data length %d", length)
ErrorIntLength == "invalid integer data length"
\* fmt.Errorf("invalid value type %s", tag.VType())
ErrorVType == "invalid value type"
\* fmt.Errorf("type %T (val=%v) not supported", val, val)
ErrorNotSupported == "type not supported"
\* The Go runtime's abort of an index expression beyond the slice's length.
PanicIndex == "panic: runtime error: index out of range"

----------------------------------------------------------------------------
(* marshalInt: the varint encoder *)

RECURSIVE marshalIntSkip(_, _, _)
\* "Skip zero septets": for ; i > 0; i-- { if val&mask != 0 break; mask >>= 7 }
marshalIntSkip(val, i, mask) ==
    IF i > 0 /\ And(val, mask) = {}
    THEN marshalIntSkip(val, i - 1, Shr(mask, 7))
    ELSE [i |-> i, mask |-> mask]

RECURSIVE marshalIntWrite(_, _, _, _)
\* "Write value septets": for ; i >= 0; i-- { ... buf.WriteByte(byte(masked)) }
marshalIntWrite(val, i, mask, buf) ==
    IF i < 0 THEN buf
    ELSE LET masked == Shr(And(val, mask), i * 7)
             cont   == IF i > 0 THEN Or(masked, U64(128)) ELSE masked
         IN  marshalIntWrite(val, i - 1, Shr(mask, 7),
                             Append(buf, ByteOf(cont)))

\* marshalInt without "Skip zero septets": always five bytes.
marshalIntNoSkip(val, buf) ==
    marshalIntWrite(val, 4, Shl(U64(127), 28), buf)

\* marshalInt(val, buf): buf with the varint of val appended.
marshalInt(val, buf) ==
    LET s == marshalIntSkip(val, 4, Shl(U64(127), 28))
    IN  marshalIntWrite(val, s.i, s.mask, buf)

----------------------------------------------------------------------------
(* unmarshalInt: the varint decoder *)

RECURSIVE unmarshalIntLoop(_, _, _, _)
\* for i := 0; i < 5; i++ { ... }, then return 0, ofs, ErrorEOF
unmarshalIntLoop(d, o, i, result) ==
    IF i >= 5 THEN [val |-> {}, ofs |-> o, err |-> ErrorEOF]
    ELSE IF o >= Len(d) THEN [val |-> {}, ofs |-> o, err |-> ErrorEOF]
    ELSE LET bit == (At(d, o) \div 128) * 128
             val == At(d, o) % 128
             r   == Or(Shl(result, 7), U64(val))
         IN  IF bit = 0
             THEN [val |-> r, ofs |-> o + 1, err |-> NoError]
             ELSE unmarshalIntLoop(d, o + 1, i + 1, r)

\* unmarshalInt whose loop runs once more: it reads up to six bytes.
unmarshalIntSixBytes(d, o) == unmarshalIntLoop(d, o, -1, {})

unmarshalInt(d, o) == unmarshalIntLoop(d, o, 0, {})

----------------------------------------------------------------------------
(* The value model: Values is map[Type]interface{} *)

\* A value of the dynamic type t.  Only the field of its type is meaningful:
\* b for bool, n for the unsigned integers, s for string and []byte (a
\* sequence of bytes), m for Values; the other fields hold their zero.
Value(t, b, n, s, m) == [t |-> t, b |-> b, n |-> n, s |-> s, m |-> m]

\* make(Values)
EmptyValues == <<>>

VBool(b) == Value("bool", b, {}, <<>>, EmptyValues)
VUint8(n) == Value("uint8", FALSE, n, <<>>, EmptyValues)
VUint16(n) == Value("uint16", FALSE, n, <<>>, EmptyValues)
VUint32(n) == Value("uint32", FALSE, n, <<>>, EmptyValues)
VUint64(n) == Value("uint64", FALSE, n, <<>>, EmptyValues)
VString(s) == Value("string", FALSE, {}, s, EmptyValues)
VBytes(s) == Value("[]byte", FALSE, {}, s, EmptyValues)
VValues(m) == Value("Values", FALSE, {}, <<>>, m)
\* A value of a type Marshal has no case for.
VFloat64(n) == Value("float64", FALSE, n, <<>>, EmptyValues)

\* v[key] = val
Put(m, key, val) ==
    [k \in DOMAIN m \cup {key} |-> IF k = key THEN val ELSE m[k]]

\* The variables of a call that has not been made.
\* Symtab(nil).
NoSymtab == <<>>

\* var Nil UUID: all bits zero.
Nil == [i \in 1..16 |-> 0]

\* Before uuid.New is called: nothing drawn, nothing returned.
NoRandom == [bytes |-> Nil, err |-> NoError]
NoUUID == [id |-> Nil, err |-> NoError]

NoInt == [val |-> {}, ofs |-> 0, err |-> NoError]
NoMarshal == [bytes |-> <<>>, isnil |-> TRUE, err |-> NoError,
              val |-> VBool(FALSE)]
NoUnmarshal == [val |-> EmptyValues, isnil |-> TRUE, err |-> NoError]

----------------------------------------------------------------------------
(* VType and Tag *)

VTBool == 0
VTInt == 1
VTString == 2
VTData == 3
VTMap == 4

\* Tag.Type: Type(t >> 3), Type being uint32.
TagType(t) == Shr(t, 3) \cap 0..31

\* Tag.SetType shifting in the 32 bits of Type: Tag(val<<3).
SetTypeUint32(t, val) == Or(Shl(val, 3) \cap 0..31, And(t, U64(7)))

\* Tag.SetType: *t = Tag(val)<<3 | Tag(*t&0x7)
SetType(t, val) == Or(Shl(val, 3), And(t, U64(7)))

\* Tag.VType with the mask 0x3: the third kind bit is dropped.
TagVTypeTwoBits(t) == ByteOf(And(t, U64(3)))

\* Tag.VType: VType(t & 0x7)
TagVType(t) == ByteOf(And(t, U64(7)))

\* Tag.SetVType: *t = Tag(*t&^0x7) | Tag(val)
SetVType(t, val) == Or(t \ U64(7), U64(val))

----------------------------------------------------------------------------
(* Unmarshal: the decoder, one action per loop iteration and per return *)

\* int(length) for a length below 2^16.
SmallInt(a) == ByteOf(a) + 256 * ByteOf(Shr(a, 8))

\* ofs+int(length) > len(data), int being 64 bits wide.  Every buffer of
\* the model is shorter than 2^16 bytes, so a length with a bit at or above
\* bit 16 exceeds it.
Exceeds(o, length, n) ==
    \/ \E b \in length : b >= 16
    \/ o + SmallInt(length) > n

RECURSIVE LittleEndian(_)
\* The bytes s read least significant byte first.
LittleEndian(s) ==
    IF s = <<>> THEN {}
    ELSE Or(Shl(LittleEndian(SubSeq(s, 2, Len(s))), 8), U64(s[1]))

RECURSIVE BigEndian(_)
\* bo.Uint16 / bo.Uint32 / bo.Uint64 of the bytes s.
BigEndian(s) ==
    IF s = <<>> THEN {}
    ELSE Or(Shl(BigEndian(SubSeq(s, 1, Len(s) - 1)), 8), U64(s[Len(s)]))

\* data[from : from+n]
Slice(d, from, n) == SubSeq(d, from + 1, from + n)

\* A frame of Unmarshal: its data argument, its locals ofs and result, and
\* the tag and length of the record whose nested call is in progress.
Frame(d) == [data |-> d, ofs |-> 0, result |-> EmptyValues,
             tag |-> {}, length |-> {}]

\* What one iteration of the loop does.
Outcome(op, err, val, o, tag, length) ==
    [op |-> op, err |-> err, val |-> val, ofs |-> o, tag |-> tag,
     length |-> length]

\* The switch on tag.VType() for a record whose payload starts at o.
UnmarshalValue(d, o, tag, length) ==
    LET Store(val) == Outcome("store", NoError, val, o, tag, length)
        Fail(err) == Outcome("fail", err, VBool(FALSE), o, tag, length)
        vt == TagVType(tag)
    IN  IF vt = VTBool THEN
            IF o >= Len(d)
            THEN Outcome("panic", PanicIndex, VBool(FALSE), o, tag, length)
            ELSE Store(VBool(At(d, o) # 0))
        ELSE IF vt = VTInt THEN
            IF length = U64(1) THEN Store(VUint8(U64(At(d, o))))
            ELSE IF length = U64(2)
                 THEN Store(VUint16(BigEndian(Slice(d, o, 2))))
            ELSE IF length = U64(4)
                 THEN Store(VUint32(BigEndian(Slice(d, o, 4))))
            ELSE IF length = U64(8)
                 THEN Store(VUint64(BigEndian(Slice(d, o, 8))))
            ELSE Fail(ErrorIntLength)
        ELSE IF vt = VTString
             THEN Store(VString(Slice(d, o, SmallInt(length))))
        ELSE IF vt = VTData
             THEN Store(VBytes(Slice(d, o, SmallInt(length))))
        ELSE IF vt = VTMap
             THEN Outcome("call", NoError, VBool(FALSE), o, tag, length)
        ELSE Fail(ErrorVType)

\* The iteration with the kind looked at before the bounds check.
UnmarshalIterationKindFirst(f) ==
    LET Fail(err) == Outcome("fail", err, VBool(FALSE), f.ofs, {}, {})
        t == unmarshalInt(f.data, f.ofs)
        l == unmarshalInt(f.data, t.ofs)
    IN  IF t.err # NoError THEN Fail(t.err)
        ELSE IF l.err # NoError THEN Fail(l.err)
        ELSE IF TagVType(t.val) > VTMap THEN Fail(ErrorVType)
        ELSE IF Exceeds(l.ofs, l.val, Len(f.data)) THEN Fail(ErrorTruncated)
        ELSE UnmarshalValue(f.data, l.ofs, t.val, l.val)

\* One iteration of "for ofs < len(data)" of the frame f, up to the switch.
UnmarshalIteration(f) ==
    LET Fail(err) == Outcome("fail", err, VBool(FALSE), f.ofs, {}, {})
        t == unmarshalInt(f.data, f.ofs)
        l == unmarshalInt(f.data, t.ofs)
    IN  IF t.err # NoError THEN Fail(t.err)
        ELSE IF l.err # NoError THEN Fail(l.err)
        ELSE IF Exceeds(l.ofs, l.val, Len(f.data)) THEN Fail(ErrorTruncated)
        ELSE UnmarshalValue(f.data, l.ofs, t.val, l.val)

\* The store that keeps the entry an identifier already has.
StoreFieldFirstWins(f, o, tag, length, val) ==
    [f EXCEPT !.ofs = o + SmallInt(length),
              !.result = IF TagType(tag) \in DOMAIN f.result THEN f.result
                         ELSE Put(f.result, TagType(tag), val)]

\* ofs += int(length); result[tag.Type()] = val
StoreField(f, o, tag, length, val) ==
    [f EXCEPT !.ofs = o + SmallInt(length),
              !.result = Put(f.result, TagType(tag), val)]

Top == stack[Len(stack)]

\* Unmarshal(data) is entered: result := make(Values); ofs := 0.
UnmarshalCall ==
    /\ pc = "Unmarshal"
    /\ stack' = <<Frame(data)>>
    /\ pc' = "loop"
    /\ UNCHANGED <<symtab, out, rnd, uuid>>
    /\ UNCHANGED <<caller, ival, data, ofs, iret, values, mret, ret>>

\* One record decoded by a decoder that opens no nested call from a call
\* nested two deep, and fails instead.
UnmarshalRecordBounded ==
    /\ pc = "loop"
    /\ Top.ofs < Len(Top.data)
    /\ LET r == UnmarshalIteration(Top)
           n == Len(stack)
       IN  IF r.op = "panic" THEN
               /\ pc' = "panic"
               /\ stack' = <<>>
               /\ UNCHANGED ret
           ELSE IF r.op = "fail" \/ (r.op = "call" /\ n > 2) THEN
               /\ ret' = [val |-> EmptyValues, isnil |-> TRUE,
                          err |-> IF r.op = "fail" THEN r.err
                                  ELSE "nesting too deep"]
               /\ stack' = <<>>
               /\ pc' = "done"
           ELSE IF r.op = "store" THEN
               /\ stack' = [stack EXCEPT
                     ![n] = StoreField(Top, r.ofs, r.tag, r.length, r.val)]
               /\ UNCHANGED <<pc, ret>>
           ELSE
               /\ stack' = Append(
                     [stack EXCEPT ![n] = [Top EXCEPT !.ofs = r.ofs,
                                                      !.tag = r.tag,
                                                      !.length = r.length]],
                     Frame(Slice(Top.data, r.ofs, SmallInt(r.length))))
               /\ UNCHANGED <<pc, ret>>
    /\ UNCHANGED <<symtab, out, rnd, uuid>>
    /\ UNCHANGED <<caller, ival, data, ofs, iret, values, mret>>

\* One iteration of the loop in the innermost call.  An error ends every
\* enclosing call as well: each of them returns nil, err as soon as its
\* nested call returns.  An index out of range aborts the goroutine: no
\* call returns.
UnmarshalRecord ==
    /\ pc = "loop"
    /\ Top.ofs < Len(Top.data)
    /\ LET r == UnmarshalIteration(Top)
           n == Len(stack)
       IN  IF r.op = "panic" THEN
               /\ pc' = "panic"
               /\ stack' = <<>>
               /\ UNCHANGED ret
           ELSE IF r.op = "fail" THEN
               /\ ret' = [val |-> EmptyValues, isnil |-> TRUE, err |-> r.err]
               /\ stack' = <<>>
               /\ pc' = "done"
           ELSE IF r.op = "store" THEN
               /\ stack' = [stack EXCEPT
                     ![n] = StoreField(Top, r.ofs, r.tag, r.length, r.val)]
               /\ UNCHANGED <<pc, ret>>
           ELSE
               /\ stack' = Append(
                     [stack EXCEPT ![n] = [Top EXCEPT !.ofs = r.ofs,
                                                      !.tag = r.tag,
                                                      !.length = r.length]],
                     Frame(Slice(Top.data, r.ofs, SmallInt(r.length))))
               /\ UNCHANGED <<pc, ret>>
    /\ UNCHANGED <<symtab, out, rnd, uuid>>
    /\ UNCHANGED <<caller, ival, data, ofs, iret, values, mret>>

\* A nested call leaves its loop and returns result, nil; the caller stores
\* it as the value of the Map record.
UnmarshalReturnNested ==
    /\ pc = "loop"
    /\ Len(stack) > 1
    /\ Top.ofs >= Len(Top.data)
    /\ LET n == Len(stack)
           parent == stack[n - 1]
       IN  stack' = [SubSeq(stack, 1, n - 1) EXCEPT
                 ![n - 1] = StoreField(parent, parent.ofs, parent.tag,
                                       parent.length, VValues(Top.result))]
    /\ UNCHANGED <<symtab, out, rnd, uuid>>
    /\ UNCHANGED <<caller, pc, ival, data, ofs, iret, values, mret, ret>>

\* The outermost call leaves its loop and returns result, nil.
UnmarshalReturn ==
    /\ pc = "loop"
    /\ Len(stack) = 1
    /\ Top.ofs >= Len(Top.data)
    /\ ret' = [val |-> Top.result, isnil |-> FALSE, err |-> NoError]
    /\ stack' = <<>>
    /\ pc' = "done"
    /\ UNCHANGED <<symtab, out, rnd, uuid>>
    /\ UNCHANGED <<caller, ival, data, ofs, iret, values, mret>>

----------------------------------------------------------------------------
(* Values.Keys and Values.Marshal: the encoder *)

\* a < b on Type.
Less(a, b) == \E i \in b \ a : \A j \in (a \cup b) : j > i => (j \in a <=> j \in b)

\* "for key := range v" fills keys in an order the runtime chooses: the keys
\* of v in the order they have in iter.
RangeKeys(v, iter) == SelectSeq(iter, LAMBDA k : k \in DOMAIN v)

RECURSIVE SortSlice(_)
\* sort.Slice(keys, func(i, j) { return keys[i] < keys[j] }): an insertion
\* sort, as the sort package does for a short slice.
SortSlice(keys) ==
    IF keys = <<>> THEN <<>>
    ELSE LET front == SortSlice(SubSeq(keys, 1, Len(keys) - 1))
             k == keys[Len(keys)]
             lower == SelectSeq(front, LAMBDA x : ~Less(k, x))
             upper == SelectSeq(front, LAMBDA x : Less(k, x))
         IN  lower \o <<k>> \o upper

\* Values.Keys without the sort.
KeysUnsorted(v, iter) == RangeKeys(v, iter)

\* Values.Keys
Keys(v, iter) == SortSlice(RangeKeys(v, iter))

\* The n bytes of val least significant byte first.
PutUintLittleEndian(val, n) == [j \in 1..n |-> ByteOf(Shr(val, 8 * (j - 1)))]

\* bo.PutUint16 / PutUint32 / PutUint64 into tmp, then tmp[:n].
PutUint(val, n) == [j \in 1..n |-> ByteOf(Shr(val, 8 * (n - j)))]

\* What Marshal returns: the bytes, or nil and the error, which names the
\* type and the value it does not support.
MarshalOK(buf) ==
    [bytes |-> buf, isnil |-> FALSE, err |-> NoError, val |-> VBool(FALSE)]
MarshalError(val) ==
    [bytes |-> <<>>, isnil |-> TRUE, err |-> ErrorNotSupported, val |-> val]

\* The default case as it was before it returned an error: the field is
\* reported on standard output and left out.
MarshalDefaultSkip(val, buf) == MarshalOK(buf)

\* The default case of the type switch.
MarshalDefault(val, buf) == MarshalError(val)

RECURSIVE Marshal(_, _)
RECURSIVE MarshalLoop(_, _, _, _, _)

\* The body of "for _, key := range v.Keys()" for one key: the buffer with
\* the record appended, or the error the loop returns.
MarshalField(key, val, buf, iter) ==
    LET Tagged(vt) == marshalInt(SetVType(SetType({}, key), vt), buf)
    IN  IF val.t = "bool" THEN
            MarshalOK(Tagged(VTBool) \o <<1, IF val.b THEN 1 ELSE 0>>)
        ELSE IF val.t = "uint8" THEN
            MarshalOK(Tagged(VTInt) \o <<1, ByteOf(val.n)>>)
        ELSE IF val.t = "uint16" THEN
            MarshalOK(marshalInt(U64(2), Tagged(VTInt)) \o PutUint(val.n, 2))
        ELSE IF val.t = "uint32" THEN
            MarshalOK(marshalInt(U64(4), Tagged(VTInt)) \o PutUint(val.n, 4))
        ELSE IF val.t = "uint64" THEN
            MarshalOK(marshalInt(U64(8), Tagged(VTInt)) \o PutUint(val.n, 8))
        ELSE IF val.t = "string" THEN
            MarshalOK(marshalInt(U64(Len(val.s)), Tagged(VTString)) \o val.s)
        ELSE IF val.t = "[]byte" THEN
            MarshalOK(marshalInt(U64(Len(val.s)), Tagged(VTData)) \o val.s)
        ELSE IF val.t = "Values" THEN
            LET d == Marshal(val.m, iter)
            IN  IF d.err # NoError THEN d
                ELSE MarshalOK(marshalInt(U64(Len(d.bytes)), Tagged(VTMap))
                                   \o d.bytes)
        ELSE MarshalDefault(val, buf)

\* The loop over keys from index i on, buf holding the records so far.
MarshalLoop(v, keys, i, buf, iter) ==
    IF i > Len(keys) THEN MarshalOK(buf)
    ELSE LET r == MarshalField(keys[i], v[keys[i]], buf, iter)
         IN  IF r.err # NoError THEN r
             ELSE MarshalLoop(v, keys, i + 1, r.bytes, iter)

\* Values.Marshal, the runtime ranging over maps in the order iter.
Marshal(v, iter) == MarshalLoop(v, Keys(v, iter), 1, <<>>, iter)

----------------------------------------------------------------------------
(* Marshal, then Unmarshal of its output, as TestMarshal does *)

\* Bounds of the inputs.
MaxFields == 3
MaxNesting == 2

\* Field identifiers: 0, 1 and 2^31 + 16.
TypeIds == {{}, {0}, {4, 31}}

\* The orders in which the runtime may range over a map.
RangeOrders ==
    {p \in [1..Cardinality(TypeIds) -> TypeIds] :
         \A i, j \in DOMAIN p : i # j => p[i] # p[j]}

\* Values of every supported type, the empty ones among them, and two of
\* an unsupported type.
Leaves ==
    {VBool(TRUE), VBool(FALSE), VUint8(U64(255)), VUint16(U64(258)),
     VUint32({0, 31}), VUint64({0, 63}), VString(<<>>), VString(<<97, 98>>),
     VBytes(<<>>), VBytes(<<0, 255>>), VFloat64({0}), VFloat64({1})}

\* The mappings of at most n fields with values in vals.
ValuesOver(n, vals) ==
    UNION {[ids -> vals] : ids \in {x \in SUBSET TypeIds : Cardinality(x) <= n}}

\* What a nested mapping holds at its innermost level, and what may stand
\* next to a nested mapping.
InnerLeaves == {VUint8(U64(7)), VString(<<>>), VFloat64({2})}
SiblingLeaves == {VUint8(U64(7)), VFloat64({0})}

RECURSIVE NestedValues(_)
\* Mappings nested at most d deep: field 1 holds the nested mapping, and
\* field 0 or field 2^31 + 16 may hold a value next to it.
NestedValues(d) ==
    IF d = 0 THEN ValuesOver(1, InnerLeaves)
    ELSE LET N == NestedValues(d - 1)
         IN  N \cup {[k \in {{0}} |-> VValues(m)] : m \in N}
               \cup {Put([k \in {{0}} |-> VValues(m)], id, val) :
                        m \in N, id \in TypeIds \ {{0}}, val \in SiblingLeaves}

Mappings == ValuesOver(MaxFields, Leaves) \cup NestedValues(MaxNesting)

InitMarshal ==
    /\ caller = "roundtrip"
    /\ pc = "Marshal"
    /\ values \in Mappings
    /\ data = <<>>
    /\ ival = {}
    /\ ofs = 0
    /\ iret = NoInt
    /\ mret = NoMarshal
    /\ stack = <<>>
    /\ ret = NoUnmarshal
    /\ symtab = NoSymtab
    /\ out = <<>>
    /\ rnd = NoRandom
    /\ uuid = NoUUID

\* data, err := values.Marshal(); the test stops on an error.
MarshalCall ==
    /\ pc = "Marshal"
    /\ \E iter \in RangeOrders : mret' = Marshal(values, iter)
    /\ IF mret'.err = NoError
       THEN data' = mret'.bytes /\ pc' = "Unmarshal"
       ELSE data' = data /\ pc' = "done"
    /\ UNCHANGED <<symtab, out, rnd, uuid>>
    /\ UNCHANGED <<caller, ival, ofs, iret, values, stack, ret>>

NextMarshal ==
    \/ MarshalCall
    \/ UnmarshalCall
    \/ UnmarshalRecord
    \/ UnmarshalReturnNested
    \/ UnmarshalReturn

SpecMarshal == InitMarshal /\ [][NextMarshal]_vars

----------------------------------------------------------------------------
(* Properties of Marshal *)

SupportedTypes ==
    {"bool", "uint8", "uint16", "uint32", "uint64", "string", "[]byte"}

RECURSIVE Supported(_)
\* Every value of v, at every depth, is of a type Marshal supports.
Supported(v) ==
    \A k \in DOMAIN v :
        \/ v[k].t \in SupportedTypes
        \/ v[k].t = "Values" /\ Supported(v[k].m)

\* The smallest of a non-empty set of identifiers.
MinId(ids) == CHOOSE k \in ids : \A x \in ids \ {k} : Less(k, x)

RECURSIVE FirstUnsupported(_)
\* The first value of an unsupported type met when the fields of v are
\* walked in ascending order of identifier, nested mappings included.
FirstUnsupported(v) ==
    LET bad == {k \in DOMAIN v : ~Supported([x \in {k} |-> v[k]])}
        k == MinId(bad)
    IN  IF v[k].t = "Values" THEN FirstUnsupported(v[k].m) ELSE v[k]

\* C1: a mapping of supported values only is marshalled without error, and
\* Unmarshal of the bytes returns the same mapping: the same identifiers,
\* each with a value of the same type (the integer width included) and the
\* same content, at every depth.
C1_RoundTrip ==
    (caller = "roundtrip" /\ Supported(values)) =>
        /\ pc # "panic"
        /\ pc # "Marshal" => mret.err = NoError /\ ~mret.isnil
        /\ pc = "done" =>
               ret = [val |-> values, isnil |-> FALSE, err |-> NoError]

\* A mapping holding a mapping that holds a mapping with an empty string,
\* next to a uint8, has made the round trip.
C1_Witness ==
    /\ caller = "roundtrip" /\ pc = "done"
    /\ values = Put([a \in {{0}} |-> VValues(
                       [b \in {{0}} |-> VValues(
                          [c \in {{4, 31}} |-> VString(<<>>)])])],
                    {}, VUint8(U64(7)))
    /\ ret.val = values

\* C4: a mapping that holds, at any depth, a value of an unsupported type
\* makes Marshal return an error and nil, no bytes of the fields before it;
\* the error names the first unsupported value in ascending key order.
C4_KindRejection ==
    (caller = "roundtrip" /\ pc # "Marshal" /\ ~Supported(values)) =>
        /\ mret = MarshalError(FirstUnsupported(values))
        /\ pc = "done"

\* Marshal has refused a mapping that holds two unsupported values, one in
\* the nested mapping of field 1 and another in field 2^31 + 16, and has
\* named the nested one.
C4_Witness ==
    /\ caller = "roundtrip" /\ pc = "done"
    /\ DOMAIN values = {{0}, {4, 31}}
    /\ values[{0}].t = "Values" /\ ~Supported(values[{0}].m)
    /\ values[{4, 31}] = VFloat64({0})
    /\ mret = MarshalError(VFloat64({2}))

RECURSIVE Records(_, _)
\* The records of the well-formed buffer d from offset o on: identifier
\* and payload of each.
Records(d, o) ==
    IF o >= Len(d) THEN <<>>
    ELSE LET t == unmarshalInt(d, o)
             l == unmarshalInt(d, t.ofs)
             n == SmallInt(l.val)
         IN  <<[id |-> TagType(t.val), payload |-> Slice(d, l.ofs, n)]>>
                 \o Records(d, l.ofs + n)

RECURSIVE Canonical(_, _)
\* d holds exactly one record per field of v, in strictly ascending order
\* of identifier, and so does the payload of every nested mapping.
Canonical(v, d) ==
    LET r == Records(d, 0)
    IN  /\ Len(r) = Cardinality(DOMAIN v)
        /\ {r[i].id : i \in DOMAIN r} = DOMAIN v
        /\ \A i \in 1..(Len(r) - 1) : Less(r[i].id, r[i + 1].id)
        /\ \A i \in DOMAIN r :
               v[r[i].id].t = "Values" => Canonical(v[r[i].id].m, r[i].payload)

\* C8: Keys returns every key once, in ascending order; Marshal emits one
\* record per field in that order at every level; so its output does not
\* depend on the order in which the runtime ranges over the map.
C8_CanonicalOrder ==
    (caller = "roundtrip" /\ pc # "Marshal") =>
        /\ \A iter \in RangeOrders :
               LET keys == Keys(values, iter)
               IN  /\ Len(keys) = Cardinality(DOMAIN values)
                   /\ {keys[i] : i \in DOMAIN keys} = DOMAIN values
                   /\ \A i \in 1..(Len(keys) - 1) : Less(keys[i], keys[i + 1])
        /\ \A iter \in RangeOrders : Marshal(values, iter) = mret
        /\ mret.err = NoError => Canonical(values, mret.bytes)

\* A mapping of three fields has been marshalled, its records in the order
\* 0, 1, 2^31 + 16.
C8_Witness ==
    /\ caller = "roundtrip" /\ pc = "done"
    /\ mret.err = NoError
    /\ DOMAIN values = TypeIds
    /\ LET r == Records(mret.bytes, 0)
       IN  <<r[1].id, r[2].id, r[3].id>> = <<{}, {0}, {4, 31}>>

----------------------------------------------------------------------------
(* The varint codec on its own: marshalInt, then unmarshalInt *)

\* Bounds of the inputs.
MaxSmallInt == 130
MaxVarintLen == 6

\* The bits at the edges of the five septets, and the first bit beyond.
SeptetEdges == {0, 6, 7, 13, 14, 20, 21, 27, 28, 34, 35}

\* uint64 arguments of marshalInt.
IntInputs ==
    (SUBSET SeptetEdges)
        \cup {U64(n) : n \in 0..MaxSmallInt}
        \cup {0..k : k \in 0..36}
        \cup {{63}, 0..63}

\* Bytes of the buffers given to unmarshalInt: with and without the
\* continuation bit, with a zero and a non-zero septet.
VarintBytes == {0, 127, 128, 133}

VarintBuffers == UNION {[1..n -> VarintBytes] : n \in 0..MaxVarintLen}

InitInt ==
    /\ \/ /\ caller = "roundtrip"
          /\ pc = "marshalInt"
          /\ ival \in IntInputs
          /\ data = <<>>
          /\ ofs = 0
       \/ /\ caller = "decode"
          /\ pc = "unmarshalInt"
          /\ ival = {}
          /\ data \in VarintBuffers
          /\ ofs \in {0, 1, Len(data)} \cap 0..Len(data)
    /\ iret = NoInt
    /\ values = EmptyValues
    /\ mret = NoMarshal
    /\ stack = <<>>
    /\ ret = NoUnmarshal
    /\ symtab = NoSymtab
    /\ out = <<>>
    /\ rnd = NoRandom
    /\ uuid = NoUUID

\* marshalInt(ival, buf) on an empty buffer.
MarshalInt ==
    /\ pc = "marshalInt"
    /\ data' = marshalInt(ival, <<>>)
    /\ pc' = "unmarshalInt"
    /\ UNCHANGED <<symtab, out, rnd, uuid>>
    /\ UNCHANGED <<caller, ival, ofs, iret, values, mret, stack, ret>>

\* unmarshalInt(data, ofs)
UnmarshalInt ==
    /\ pc = "unmarshalInt"
    /\ iret' = unmarshalInt(data, ofs)
    /\ pc' = "done"
    /\ UNCHANGED <<symtab, out, rnd, uuid>>
    /\ UNCHANGED <<caller, ival, data, ofs, values, mret, stack, ret>>

NextInt == MarshalInt \/ UnmarshalInt

SpecInt == InitInt /\ [][NextInt]_vars

----------------------------------------------------------------------------
(* Unmarshal on arbitrary buffers, as FuzzMarshal calls it *)

\* Bounds of the inputs.
MaxChunks == 2
MaxDepth == 2
MaxIntLen == 9

\* n payload bytes: 1, 2, 3, ...
Payload(n) == [j \in 1..n |-> j]

\* The header of a record: the varints of Tag{id, vt} and of the length.
Header(vt, id, length) ==
    marshalInt(U64(length), marshalInt(Or(Shl(id, 3), U64(vt)), <<>>))

\* A record of kind bits vt that declares length bytes and carries have.
Rec(vt, id, length, have) == Header(vt, id, length) \o Payload(have)

\* A Map record whose payload is the buffer b.
Wrap(id, b) == Header(VTMap, id, Len(b)) \o b

\* The pieces buffers are made of: records of every kind with their whole
\* payload, records cut short, integers of every length, a few records
\* with other identifiers and payloads, and bytes that are no record.
Chunks ==
    {Rec(vt, {}, n, n) : vt \in 0..7, n \in 0..1}
        \cup {Rec(vt, {}, 2, 1) : vt \in 0..7}
        \cup {Rec(VTInt, {}, n, n) : n \in 2..MaxIntLen}
        \cup {Rec(vt, {0}, 1, 1) : vt \in {VTBool, VTInt, VTString}}
        \cup {Rec(vt, {}, 2, 2) : vt \in {VTString, VTData}}
        \cup {Header(VTBool, {}, 1) \o <<0>>}
        \cup {<<0>>, <<128>>, <<128, 128, 128, 128, 128>>}

RECURSIVE Flat(_)
\* The concatenations of at most n chunks.
Flat(n) ==
    IF n = 0 THEN {<<>>}
    ELSE LET F == Flat(n - 1) IN F \cup {b \o c : b \in F, c \in Chunks}

RECURSIVE Nest(_)
\* At most one chunk, inside exactly d Map records.
Nest(d) == IF d = 0 THEN Flat(1) ELSE {Wrap({}, b) : b \in Nest(d - 1)}

\* What may stand before and after a nested Map record.
Around == {<<>>, Rec(VTInt, {0}, 1, 1), Rec(5, {}, 0, 0)}

Buffers ==
    Flat(MaxChunks)
        \cup {pre \o w \o post :
                 pre \in Around, post \in Around,
                 w \in UNION {Nest(d) : d \in 1..MaxDepth}}

InitUnmarshal ==
    /\ caller = "decode"
    /\ pc = "Unmarshal"
    /\ data \in Buffers
    /\ ival = {}
    /\ ofs = 0
    /\ iret = NoInt
    /\ values = EmptyValues
    /\ mret = NoMarshal
    /\ stack = <<>>
    /\ ret = NoUnmarshal
    /\ symtab = NoSymtab
    /\ out = <<>>
    /\ rnd = NoRandom
    /\ uuid = NoUUID

NextUnmarshal ==
    \/ UnmarshalCall
    \/ UnmarshalRecord
    \/ UnmarshalReturnNested
    \/ UnmarshalReturn

SpecUnmarshal == InitUnmarshal /\ [][NextUnmarshal]_vars

----------------------------------------------------------------------------
(* Properties of Unmarshal on arbitrary buffers *)

\* The decoder is about to read a record in the innermost call.
AtRecord == pc = "loop" /\ Top.ofs < Len(Top.data)

\* The two varints of that record's header.
HdrTag == unmarshalInt(Top.data, Top.ofs)
HdrLen == unmarshalInt(Top.data, HdrTag.ofs)

\* The header decodes.
HeaderOK == AtRecord /\ HdrTag.err = NoError /\ HdrLen.err = NoError

\* The bytes left after the header in the slice being decoded.
Remaining == Len(Top.data) - HdrLen.ofs

\* The declared length is at most the number of bytes left.
DeclaredFits == \E k \in 0..Remaining : HdrLen.val = U64(k)

\* The kind bits and the field identifier of the tag.
KindBits == HdrTag.val \cap {0, 1, 2}
FieldId == {b - 3 : b \in HdrTag.val \ {0, 1, 2}}

\* The whole call fails with err and returns no mapping.
Failed(err) ==
    /\ pc' = "done"
    /\ ret' = [val |-> EmptyValues, isnil |-> TRUE, err |-> err]

\* The record is accepted: the call goes on, in the same frame past the
\* payload of n bytes, with val stored under the record's identifier.
Stored(n, val) ==
    /\ pc' = "loop"
    /\ stack' = [stack EXCEPT ![Len(stack)] =
           [Top EXCEPT !.ofs = HdrLen.ofs + n,
                       !.result = Put(Top.result, FieldId, val)]]

\* C2: Unmarshal returns either a mapping and no error, or no mapping and
\* one of the errors truncated data, unexpected EOF, invalid integer data
\* length, invalid value type; it ends in no other way.
C2_UnmarshalTotal ==
    /\ pc # "panic"
    /\ pc = "done" =>
           \/ ret.err = NoError /\ ~ret.isnil
           \/ /\ ret.err \in {ErrorTruncated, ErrorEOF, ErrorIntLength,
                               ErrorVType}
              /\ ret.isnil
              /\ ret.val = EmptyValues

\* C3: a record of kind Boolean, Text, Bytes or Map that declares length 0
\* is accepted with exactly its header consumed, wherever it stands.  (An
\* Integer record of length 0 is left out: C9 has it refused.)
C3_ZeroLengthTolerated ==
    [][(HeaderOK /\ HdrLen.val = {}
                 /\ KindBits \in {U64(VTBool), U64(VTString), U64(VTData),
                                   U64(VTMap)})
         => /\ pc' = "loop"
            /\ Len(stack') >= Len(stack)
            /\ stack'[Len(stack)].ofs = HdrLen.ofs]_vars

\* C5: a record whose header decodes and declares more bytes than are left
\* in the slice being decoded makes the call fail with ErrorTruncated,
\* whatever its kind bits, at top level and in a nested map payload.
C5_TruncationDetected ==
    [][(HeaderOK /\ ~DeclaredFits) => Failed(ErrorTruncated)]_vars

\* A record of the unknown kind 5 cut short inside a Map payload has made
\* the call fail with ErrorTruncated.
C5_Witness ==
    /\ pc = "done"
    /\ data = <<4, 3, 5, 2, 1>>
    /\ ret = [val |-> EmptyValues, isnil |-> TRUE, err |-> ErrorTruncated]

\* The integer of the n payload bytes after the header, big-endian.
PayloadInt(n) ==
    UNION {Shl(U64(At(Top.data, HdrLen.ofs + j)), 8 * (n - 1 - j)) :
               j \in 0..(n - 1)}

\* C9: an Integer record whose payload fits yields a uint8, uint16, uint32
\* or uint64 (big-endian) for the declared lengths 1, 2, 4, 8 and makes the
\* call fail with the invalid-integer-length error for every other length.
C9_IntegerLength ==
    [][(HeaderOK /\ DeclaredFits /\ KindBits = U64(VTInt)) =>
          IF HdrLen.val = U64(1) THEN Stored(1, VUint8(PayloadInt(1)))
          ELSE IF HdrLen.val = U64(2) THEN Stored(2, VUint16(PayloadInt(2)))
          ELSE IF HdrLen.val = U64(4) THEN Stored(4, VUint32(PayloadInt(4)))
          ELSE IF HdrLen.val = U64(8) THEN Stored(8, VUint64(PayloadInt(8)))
          ELSE Failed(ErrorIntLength)]_vars

\* A uint64 record has been decoded big-endian.
C9_Witness ==
    /\ pc = "done"
    /\ data = <<1, 8, 1, 2, 3, 4, 5, 6, 7, 8>>
    /\ ret.err = NoError
    /\ ret.val[{}] =
           VUint64({3, 8, 9, 10, 17, 18, 24, 26, 34, 40, 41, 49, 56})

\* C10: a record whose payload fits and whose kind bits are 5, 6 or 7 makes
\* the call fail with the invalid-value-kind error, also inside a nested
\* map payload and after valid records.
C10_KindValidated ==
    [][(HeaderOK /\ DeclaredFits /\ KindBits \in {U64(5), U64(6), U64(7)})
         => Failed(ErrorVType)]_vars

\* A record of kind 5 inside a Map payload, after a valid uint8 record, has
\* made the call fail.
C10_Witness ==
    /\ pc = "done"
    /\ data = <<9, 1, 1, 4, 3, 5, 1, 1>>
    /\ ret = [val |-> EmptyValues, isnil |-> TRUE, err |-> ErrorVType]

RECURSIVE Fields(_, _)
\* The records of the well-formed buffer d from offset o on: identifier,
\* kind, offset of the payload and declared length of each.
Fields(d, o) ==
    IF o >= Len(d) THEN <<>>
    ELSE LET t == unmarshalInt(d, o)
             l == unmarshalInt(d, t.ofs)
             n == SmallInt(l.val)
         IN  <<[id |-> {b - 3 : b \in t.val \ {0, 1, 2}},
                kind |-> t.val \cap {0, 1, 2}, ofs |-> l.ofs, n |-> n]>>
                 \o Fields(d, l.ofs + n)

RECURSIVE LastWins(_)
\* The mapping a well-formed buffer d stands for when, of the records with
\* the same identifier, the last one counts.
LastWins(d) ==
    LET r == Fields(d, 0)
        Last(id) == CHOOSE i \in DOMAIN r :
                        /\ r[i].id = id
                        /\ \A j \in DOMAIN r : r[j].id = id => j <= i
        Num(f) == UNION {Shl(U64(At(d, f.ofs + j)), 8 * (f.n - 1 - j)) :
                             j \in 0..(f.n - 1)}
        ValueOf(f) ==
            IF f.kind = U64(VTBool) THEN VBool(At(d, f.ofs) # 0)
            ELSE IF f.kind = U64(VTInt) THEN
                IF f.n = 1 THEN VUint8(Num(f))
                ELSE IF f.n = 2 THEN VUint16(Num(f))
                ELSE IF f.n = 4 THEN VUint32(Num(f))
                ELSE VUint64(Num(f))
            ELSE IF f.kind = U64(VTString) THEN VString(Slice(d, f.ofs, f.n))
            ELSE IF f.kind = U64(VTData) THEN VBytes(Slice(d, f.ofs, f.n))
            ELSE VValues(LastWins(Slice(d, f.ofs, f.n)))
    IN  [id \in {r[i].id : i \in DOMAIN r} |-> ValueOf(r[Last(id)])]

\* C11: when Unmarshal succeeds on a buffer that holds several records with
\* the same identifier, of the same or of different kinds, the returned
\* mapping has one entry per distinct identifier, and it holds the value of
\* the last record with that identifier, at every nesting level.
C11_LastOneWins ==
    (caller = "decode" /\ pc = "done" /\ ret.err = NoError) =>
        /\ ~ret.isnil
        /\ ret.val = LastWins(data)

\* A uint8 record and then a Text record, both of identifier 0, have been
\* decoded: the mapping holds the text only.
C11_Witness ==
    /\ caller = "decode" /\ pc = "done"
    /\ data = <<1, 1, 1, 2, 1, 1>>
    /\ ret = [val |-> [id \in {{}} |-> VString(<<1>>)], isnil |-> FALSE,
              err |-> NoError]

\* The original wording of C14: Unmarshal recurses into at most MaxDepth
\* nested Map records; a Map record met deeper than that, well formed as it
\* may be, makes the whole call fail with an error of its own, which is none
\* of the four errors of the decoder.
C14_BoundedNesting ==
    [][(/\ caller = "decode"
        /\ HeaderOK /\ DeclaredFits
        /\ KindBits = U64(VTMap)
        /\ Len(stack) > MaxDepth)
       => /\ pc' = "done"
          /\ ret'.isnil
          /\ ret'.err \notin {NoError, ErrorTruncated, ErrorEOF,
                              ErrorIntLength, ErrorVType}]_vars

\* C14: Unmarshal puts no bound on nesting.  At every depth a Map record
\* whose header decodes and whose payload fits opens a nested call on
\* exactly the payload, so the recursion is as deep as the input nests; and
\* no call ends with an error other than truncated data, unexpected EOF,
\* invalid integer data length and invalid value type.
C14_NestingUnbounded ==
    [][/\ (/\ caller = "decode"
           /\ HeaderOK /\ DeclaredFits
           /\ KindBits = U64(VTMap))
          => /\ pc' = "loop"
             /\ Len(stack') = Len(stack) + 1
             /\ stack'[Len(stack')] =
                   Frame(Slice(Top.data, HdrLen.ofs, SmallInt(HdrLen.val)))
       /\ (caller = "decode" /\ pc' = "done")
          => ret'.err \in {NoError, ErrorTruncated, ErrorEOF,
                           ErrorIntLength, ErrorVType}]_vars

\* The decoder is in a call nested deeper than the Map records that wrap
\* the innermost chunk: the chunk was a Map record itself, an empty one.
C14_Witness ==
    /\ caller = "decode" /\ pc = "loop"
    /\ Len(stack) = MaxDepth + 2
    /\ stack[Len(stack)].data = <<>>

----------------------------------------------------------------------------
(* Properties of the varint codec *)

\* The septets s[1..k], most significant first, as a number.
SeptetsValue(s, k) ==
    UNION {Shl(U64(s[j] % 128), 7 * (k - j)) : j \in 1..k}

\* The bytes unmarshalInt may look at: at most five, from ofs on.
VarintWindow ==
    SubSeq(data, ofs + 1, IF Len(data) - ofs > 5 THEN ofs + 5 ELSE Len(data))

\* The positions in the window of the bytes without the continuation bit.
VarintEnds == {j \in 1..Len(VarintWindow) : VarintWindow[j] < 128}

\* C6: unmarshalInt fails with ErrorEOF when the five bytes from ofs on all
\* have the continuation bit set, and when the buffer ends before a byte
\* without it; otherwise it returns the value of the septets read, most
\* significant first, and the offset just past the terminating byte.  It
\* never moves more than five bytes ahead.
C6_EOFDetection ==
    (pc = "done" /\ caller = "decode") =>
        /\ iret.ofs <= ofs + 5
        /\ IF VarintEnds = {}
           THEN iret.err = ErrorEOF
           ELSE LET k == CHOOSE j \in VarintEnds :
                             \A i \in VarintEnds : j <= i
                IN  /\ iret.err = NoError
                    /\ iret.ofs = ofs + k
                    /\ iret.val = SeptetsValue(VarintWindow, k)

\* Five continuation bytes followed by a terminating byte have been refused.
C6_Witness ==
    /\ pc = "done" /\ caller = "decode"
    /\ iret.err = ErrorEOF
    /\ data = <<133, 128, 128, 133, 128, 0>> /\ ofs = 0

\* C7: for val below 2^35 marshalInt emits one to five bytes, every byte
\* but the last with the high bit set, the septets of val most significant
\* first with no bit of val left out, the first septet non-zero unless val
\* is 0 (the single byte 0x00); 127 is 0x7F and 128 is 0x81 0x00; and
\* unmarshalInt of the bytes returns val and the offset past them.
C7_CanonicalVarint ==
    (caller = "roundtrip" /\ pc \in {"unmarshalInt", "done"}
                          /\ ival \subseteq 0..34) =>
        LET n == Len(data)
        IN  /\ n \in 1..5
            /\ \A j \in 1..(n - 1) : data[j] >= 128
            /\ data[n] < 128
            /\ ival = SeptetsValue(data, n)
            /\ ival = {} => data = <<0>>
            /\ ival # {} => data[1] % 128 # 0
            /\ ival = U64(127) => data = <<127>>
            /\ ival = U64(128) => data = <<129, 0>>
            /\ pc = "done" =>
                   iret = [val |-> ival, ofs |-> n, err |-> NoError]

\* 2^35-1 has been encoded in five bytes and decoded.
C7_Witness ==
    /\ caller = "roundtrip" /\ pc = "done"
    /\ ival = 0..34 /\ Len(data) = 5
    /\ iret.val = ival

----------------------------------------------------------------------------
(* Tags over the whole identifier domain, as TestTags walks it *)

\* The bits of an identifier that land on the edges of the tag's septets.
TagEdges == {0, 3, 4, 10, 11, 17, 18, 24, 25, 31}

\* Identifiers: every combination of the edge bits, the single bits that
\* TestTags uses, 0 and 2^32 - 1.
TagIds == (SUBSET TagEdges) \cup {{k} : k \in 0..31} \cup {{}, 0..31}

\* One value of each of the five kinds; the uint32 is the identifier, as in
\* TestTags.
TagValues(id) ==
    {VBool(TRUE), VUint32(id), VString(<<97>>), VBytes(<<1>>),
     VValues(EmptyValues)}

InitTags ==
    /\ caller = "roundtrip"
    /\ pc = "Marshal"
    /\ \E id \in TagIds : \E val \in TagValues(id) :
           values = [k \in {id} |-> val]
    /\ data = <<>>
    /\ ival = {}
    /\ ofs = 0
    /\ iret = NoInt
    /\ mret = NoMarshal
    /\ stack = <<>>
    /\ ret = NoUnmarshal
    /\ symtab = NoSymtab
    /\ out = <<>>
    /\ rnd = NoRandom
    /\ uuid = NoUUID

\* data, err := values.Marshal() on a mapping of one field: the runtime has
\* one order to range over it.
TagsMarshalCall ==
    /\ pc = "Marshal"
    /\ \E iter \in {<<k>> : k \in DOMAIN values} :
           mret' = Marshal(values, iter)
    /\ IF mret'.err = NoError
       THEN data' = mret'.bytes /\ pc' = "Unmarshal"
       ELSE data' = data /\ pc' = "done"
    /\ UNCHANGED <<symtab, out, rnd, uuid>>
    /\ UNCHANGED <<caller, ival, ofs, iret, values, stack, ret>>

NextTags ==
    \/ TagsMarshalCall
    \/ UnmarshalCall
    \/ UnmarshalRecord
    \/ UnmarshalReturnNested
    \/ UnmarshalReturn

SpecTags == InitTags /\ [][NextTags]_vars

\* The kind Marshal gives a value of a supported type.
KindOf(val) ==
    IF val.t = "bool" THEN VTBool
    ELSE IF val.t \in {"uint8", "uint16", "uint32", "uint64"} THEN VTInt
    ELSE IF val.t = "string" THEN VTString
    ELSE IF val.t = "[]byte" THEN VTData
    ELSE VTMap

\* C12: for every identifier below 2^32 and each of the five kinds, the tag
\* built by SetType and SetVType is id * 8 + kind, is below 2^35, is
\* encoded by marshalInt in at most five bytes that hold all its bits, and
\* is decoded by unmarshalInt to a tag whose Type is id and whose VType is
\* kind; Marshal writes that tag first, and the mapping of the one field
\* makes the round trip.
C12_TagPacking ==
    (caller = "roundtrip" /\ pc # "Marshal") =>
        LET id   == CHOOSE k \in DOMAIN values : TRUE
            kind == KindOf(values[id])
            tag  == SetVType(SetType({}, id), kind)
            enc  == marshalInt(tag, <<>>)
            dec  == unmarshalInt(enc, 0)
        IN  /\ tag = {b + 3 : b \in id} \cup U64(kind)
            /\ tag \subseteq 0..34
            /\ Len(enc) <= 5
            /\ SeptetsValue(enc, Len(enc)) = tag
            /\ dec = [val |-> tag, ofs |-> Len(enc), err |-> NoError]
            /\ TagType(dec.val) = id
            /\ TagVType(dec.val) = kind
            /\ mret.err = NoError
            /\ SubSeq(mret.bytes, 1, Len(enc)) = enc
            /\ pc # "panic"
            /\ pc = "done" =>
                   ret = [val |-> values, isnil |-> FALSE, err |-> NoError]

\* The mapping {2^32 - 1: uint32(2^32 - 1)} has made the round trip, its tag
\* taking five bytes.
C12_Witness ==
    /\ caller = "roundtrip" /\ pc = "done"
    /\ values = [k \in {0..31} |-> VUint32(0..31)]
    /\ SubSeq(data, 1, 5) = <<255, 255, 255, 255, 121>>
    /\ ret.val = values

----------------------------------------------------------------------------
(* Values.Dump *)

\* Symbol{Name: name, Child: child}
Symbol(name, child) == [Name |-> name, Child |-> child]

\* What one Fprintf call writes: the format k, and the string, the decimal
\* digits or the value put in its verb.
Tok(k, str, digits, val) == [k |-> k, s |-> str, n |-> digits, val |-> val]
NoValue == Value("", FALSE, {}, <<>>, EmptyValues)
Text(str) == Tok(str, "", <<>>, NoValue)

RECURSIVE DecimalDigits(_, _)
\* The decimal digits of the uint32 hi * 2^16 + lo, most significant first:
\* division by ten until the quotient is zero.
DecimalDigits(hi, lo) ==
    LET mid == (hi % 10) * 65536 + lo
        qhi == hi \div 10
        qlo == mid \div 10
    IN  IF qhi = 0 /\ qlo = 0 THEN <<mid % 10>>
        ELSE Append(DecimalDigits(qhi, qlo), mid % 10)

\* The verb %d on a Type.
Decimal(t) == DecimalDigits(SmallInt(Shr(t, 16)), SmallInt(t))

\* A prefix that indents nothing.
prefixFlat(indent) == <<>>

\* Values.prefix: "    ", indent times.
prefix(indent) == [i \in 1..indent |-> Text("    ")]

RECURSIVE dumpLoop(_, _, _, _, _)
\* The loop of Values.dump over the keys that are left.
dumpLoop(v, s, indent, keys, iter) ==
    IF keys = <<>> THEN <<>>
    ELSE LET t     == Head(keys)
             ok    == t \in DOMAIN s
             child == IF ok THEN s[t].Child ELSE NoSymtab
             label == IF ok THEN Tok("%s: ", s[t].Name, <<>>, NoValue)
                      ELSE Tok("%d: ", "", Decimal(t), NoValue)
             val   == v[t]
             body  ==
                 IF val.t = "string" THEN <<Tok("%q", "", <<>>, val)>>
                 ELSE IF val.t = "[]byte" THEN <<Tok("%x", "", <<>>, val)>>
                 ELSE IF val.t = "Values"
                 THEN <<Text("{\n")>>
                      \o dumpLoop(val.m, child, indent + 1,
                                  Keys(val.m, iter), iter)
                      \o prefix(indent) \o <<Text("}")>>
                 ELSE <<Tok("%v", "", <<>>, val)>>
         IN  prefix(indent) \o <<label>> \o body \o <<Text("\n")>>
             \o dumpLoop(v, s, indent, Tail(keys), iter)

\* Values.dump
dump(v, s, indent, iter) == dumpLoop(v, s, indent, Keys(v, iter), iter)

\* Values.Dump
Dump(v, s, iter) == dump(v, s, 0, iter)

\* Values of each case of dump's type switch; the float64 takes the default
\* case.
DumpLeaves ==
    {VBool(TRUE), VUint32({0, 31}), VString(<<97, 98>>), VBytes(<<0, 255>>),
     VFloat64({0})}

DumpMappings == ValuesOver(MaxFields, DumpLeaves) \cup NestedValues(MaxNesting)

\* Name tables: nil, and tables that name some identifiers; the symbol of
\* identifier 1, where the nested mappings are, has a Child table or none.
SymtabNames == {"values"}
InnerSymtabs ==
    {NoSymtab} \cup
    UNION {[ids -> {Symbol(name, NoSymtab) : name \in SymtabNames}] :
              ids \in (SUBSET TypeIds) \ {{}}}
Symtabs ==
    {NoSymtab} \cup
    UNION {{[k \in ids |-> Symbol(name, IF k = {0} THEN c ELSE NoSymtab)] :
               name \in SymtabNames, c \in InnerSymtabs} :
              ids \in (SUBSET TypeIds) \ {{}}}

InitDump ==
    /\ caller = "dump"
    /\ pc = "Dump"
    /\ values \in DumpMappings
    /\ symtab \in Symtabs
    /\ out = <<>>
    /\ data = <<>>
    /\ ival = {}
    /\ ofs = 0
    /\ iret = NoInt
    /\ mret = NoMarshal
    /\ stack = <<>>
    /\ ret = NoUnmarshal
    /\ rnd = NoRandom
    /\ uuid = NoUUID

\* values.Dump(w, symtab)
DumpCall ==
    /\ pc = "Dump"
    /\ \E iter \in RangeOrders : out' = Dump(values, symtab, iter)
    /\ pc' = "done"
    /\ UNCHANGED <<symtab, rnd, uuid>>
    /\ UNCHANGED <<caller, ival, data, ofs, iret, values, mret, stack, ret>>

NextDump == DumpCall

SpecDump == InitDump /\ [][NextDump]_vars

RECURSIVE DigitsValue(_)
\* The number that decimal digits denote, as <<number \div 2^16,
\* number % 2^16>>.
DigitsValue(digits) ==
    IF digits = <<>> THEN <<0, 0>>
    ELSE LET front == DigitsValue(SubSeq(digits, 1, Len(digits) - 1))
             low   == front[2] * 10 + digits[Len(digits)]
         IN  <<front[1] * 10 + low \div 65536, low % 65536>>

\* digits is the decimal numeral of identifier id.
IsDecimal(digits, id) ==
    /\ Len(digits) >= 1
    /\ \A i \in DOMAIN digits : digits[i] \in 0..9
    /\ Len(digits) > 1 => digits[1] # 0
    /\ DigitsValue(digits) = <<SmallInt(Shr(id, 16)), SmallInt(id)>>

RECURSIVE DumpLen(_, _)
\* The number of writes that the entries of v take at an indentation.
DumpLen(v, indent) ==
    IF DOMAIN v = {} THEN 0
    ELSE LET id == MinId(DOMAIN v)
             body == IF v[id].t = "Values"
                     THEN 1 + DumpLen(v[id].m, indent + 1) + indent + 1
                     ELSE 1
         IN  indent + 1 + body + 1
             + DumpLen([k \in DOMAIN v \ {id} |-> v[k]], indent)

RECURSIVE IsDump(_, _, _, _)
\* o is the entries of v, one per field in ascending order of identifier:
\* the indentation, the label (the name that s gives the identifier, or
\* else its decimal numeral), the value (a nested mapping between braces,
\* one level deeper and under the Child table of its symbol, or under no
\* table when s does not know the identifier) and the end of the line.
IsDump(o, v, s, indent) ==
    IF DOMAIN v = {} THEN o = <<>>
    ELSE LET id    == MinId(DOMAIN v)
             val   == v[id]
             known == id \in DOMAIN s
             rest  == [k \in DOMAIN v \ {id} |-> v[k]]
             n     == DumpLen(v, indent) - DumpLen(rest, indent)
             label == o[indent + 1]
             verb  == IF val.t = "string" THEN "%q"
                      ELSE IF val.t = "[]byte" THEN "%x" ELSE "%v"
         IN  /\ Len(o) >= n
             /\ \A i \in 1..indent : o[i] = Text("    ")
             /\ known => label = Tok("%s: ", s[id].Name, <<>>, NoValue)
             /\ ~known => /\ label.k = "%d: "
                          /\ IsDecimal(label.n, id)
             /\ IF val.t = "Values"
                THEN /\ o[indent + 2] = Text("{\n")
                     /\ IsDump(SubSeq(o, indent + 3, n - indent - 2), val.m,
                               IF known THEN s[id].Child ELSE NoSymtab,
                               indent + 1)
                     /\ \A i \in 1..indent :
                           o[n - indent - 2 + i] = Text("    ")
                     /\ o[n - 1] = Text("}")
                ELSE o[indent + 2] = Tok(verb, "", <<>>, val)
             /\ o[n] = Text("\n")
             /\ IsDump(SubSeq(o, n + 1, Len(o)), rest, s, indent)

\* C13: for every mapping, values of unsupported types and nested mappings
\* included, and every name table, Dump completes and writes one entry per
\* field in ascending order of identifier; an identifier that the name table
\* lacks is labelled with its decimal numeral, so under a nil table every
\* label at every level is a numeral; a nested mapping is written one
\* indentation level deeper under the Child table of its field's symbol,
\* and under no table when the field is unknown.
C13_DumpStability ==
    (caller = "dump" /\ pc = "done") =>
        /\ IsDump(out, values, symtab, 0)
        /\ symtab = NoSymtab =>
              \A i \in DOMAIN out : out[i].k # "%s: "

\* A mapping nested two deep with a value of an unsupported type at the
\* bottom and one next to it under identifier 2^31 + 16, dumped with a table
\* that knows identifier 1 only and gives it no Child table.
C13_Witness ==
    /\ caller = "dump" /\ pc = "done"
    /\ symtab = [k \in {{0}} |-> Symbol("values", NoSymtab)]
    /\ values = [k \in {{0}, {4, 31}} |->
                    IF k = {0}
                    THEN VValues([i \in {{0}} |->
                             VValues([j \in {{}} |-> VFloat64({2})])])
                    ELSE VFloat64({0})]
    /\ out = <<Tok("%s: ", "values", <<>>, NoValue), Text("{\n"),
               Text("    "), Tok("%d: ", "", <<1>>, NoValue), Text("{\n"),
               Text("    "), Text("    "), Tok("%d: ", "", <<0>>, NoValue),
               Tok("%v", "", <<>>, VFloat64({2})), Text("\n"),
               Text("    "), Text("}"), Text("\n"),
               Text("}"), Text("\n"),
               Tok("%d: ", "", <<2, 1, 4, 7, 4, 8, 3, 6, 6, 4>>, NoValue),
               Tok("%v", "", <<>>, VFloat64({0})), Text("\n")>>

----------------------------------------------------------------------------
(* Package uuid: New and the accessors of the variant and the version *)

\* type Variant
ReservedNCS == 0
RFC4122 == 1
Microsoft == 2
ReservedFuture == 3

\* binary.LittleEndian.Uint16
LittleEndianUint16(b) == Or(U64(b[1]), Shl(U64(b[2]), 8))

\* UUID.ClkSeqHiAndVariant
ClkSeqHiAndVariant(id) ==
    LET val == U64(At(id, 8))
        R(mask, variant) ==
            [hi |-> ByteOf(And(val, U64(mask))), variant |-> variant]
    IN  IF And(val, U64(128)) = {} THEN R(127, ReservedNCS)
        ELSE IF And(val, U64(192)) = U64(128) THEN R(63, RFC4122)
        ELSE IF And(val, U64(224)) = U64(192) THEN R(31, Microsoft)
        ELSE R(31, ReservedFuture)

\* UUID.TimeHiAndVersion
TimeHiAndVersion(id) ==
    IF ClkSeqHiAndVariant(id).variant = Microsoft
    THEN LittleEndianUint16(Slice(id, 6, 2))
    ELSE BigEndian(Slice(id, 6, 2))

\* UUID.Version
Version(id) == ByteOf(Shr(TimeHiAndVersion(id), 12))

\* New that sets the version and leaves the variant as drawn.
NewVersionOnly(r) ==
    IF r.err # NoError THEN [id |-> Nil, err |-> r.err]
    ELSE [id |-> [r.bytes EXCEPT
                     ![7] = ByteOf(Or(U64(64), And(U64(r.bytes[7]), U64(15))))],
          err |-> NoError]

\* New, r being what rand.Read(id[:]) gives.
New(r) ==
    IF r.err # NoError THEN [id |-> Nil, err |-> r.err]
    ELSE LET id8 == [r.bytes EXCEPT
                        ![9] = ByteOf(Or(U64(128), And(U64(r.bytes[9]), U64(63))))]
             id6 == [id8 EXCEPT
                        ![7] = ByteOf(Or(U64(64), And(U64(id8[7]), U64(15))))]
         IN  [id |-> id6, err |-> NoError]

\* What the random source may give: every byte 6, bytes 8 around the edges
\* of the four variants, byte 7 and the other bytes all zeros or all ones;
\* or an error.
RandomReads ==
    {[bytes |-> [i \in 1..16 |-> IF i = 7 THEN b6 ELSE IF i = 8 THEN b7
                                 ELSE IF i = 9 THEN b8 ELSE fill],
      err |-> err] :
        b6 \in 0..255, b7 \in {0, 255},
        b8 \in {0, 63, 64, 127, 128, 191, 192, 223, 224, 255},
        fill \in {0, 255}, err \in {NoError}}
    \cup {[bytes |-> Nil, err |-> "rand.Read error"]}

InitUUID ==
    /\ caller = "uuid"
    /\ pc = "New"
    /\ rnd \in RandomReads
    /\ uuid = NoUUID
    /\ values = EmptyValues
    /\ symtab = NoSymtab
    /\ out = <<>>
    /\ data = <<>>
    /\ ival = {}
    /\ ofs = 0
    /\ iret = NoInt
    /\ mret = NoMarshal
    /\ stack = <<>>
    /\ ret = NoUnmarshal

\* id, err := uuid.New()
NewCall ==
    /\ pc = "New"
    /\ uuid' = New(rnd)
    /\ pc' = "done"
    /\ UNCHANGED <<symtab, out, rnd>>
    /\ UNCHANGED <<caller, ival, data, ofs, iret, values, mret, stack, ret>>

NextUUID == NewCall

SpecUUID == InitUUID /\ [][NextUUID]_vars

\* C15: whatever 16 bytes the random source gives, the UUID that New returns
\* has the variant RFC4122 (the top two bits of byte 8 are 10) and the
\* version 4 (the top four bits of byte 6 are 0100), and every other bit is
\* the random bit; and New returns the error of the random source, if it
\* gives one.
C15_NewIsVersion4 ==
    (caller = "uuid" /\ pc = "done") =>
        /\ uuid.err = rnd.err
        /\ uuid.err = NoError =>
              /\ ClkSeqHiAndVariant(uuid.id).variant = RFC4122
              /\ Version(uuid.id) = 4
              /\ At(uuid.id, 8) \div 64 = 2
              /\ At(uuid.id, 6) \div 16 = 4
              /\ At(uuid.id, 8) % 64 = At(rnd.bytes, 8) % 64
              /\ At(uuid.id, 6) % 16 = At(rnd.bytes, 6) % 16
              /\ \A i \in (0..15) \ {6, 8} : At(uuid.id, i) = At(rnd.bytes, i)

\* The random source gave a byte 8 of the Microsoft variant and a byte 6 of
\* version 15; New returned them as 0x9f and 0x4f.
C15_Witness ==
    /\ caller = "uuid" /\ pc = "done"
    /\ uuid.err = NoError
    /\ At(rnd.bytes, 8) = 223 /\ At(rnd.bytes, 6) = 255
    /\ At(rnd.bytes, 7) = 0
    /\ At(uuid.id, 8) = 159 /\ At(uuid.id, 6) = 79

----------------------------------------------------------------------------
(* Unmarshal and the caller's buffer after the call *)

RECURSIVE Shares(_, _, _)
\* What the loop of frame f returns, read while the array under the buffer
\* holds arr, f.data starting at index base of it: a value of kind Data is
\* the slice data[ofs : ofs+int(length)] of that array, a nested call got
\* such a slice as its data, and every other value was copied out of the
\* buffer when its record was decoded.
Shares(f, base, arr) ==
    IF f.ofs >= Len(f.data) THEN f.result
    ELSE LET r == UnmarshalIteration(f)
             n == SmallInt(r.length)
             val ==
                 IF r.op = "call"
                 THEN VValues(Shares(Frame(Slice(f.data, r.ofs, n)),
                                     base + r.ofs, arr))
                 ELSE IF TagVType(r.tag) = VTData
                 THEN VBytes(Slice(arr, base + r.ofs, n))
                 ELSE r.val
         IN  IF r.op \in {"store", "call"}
             THEN Shares(StoreField(f, r.ofs, r.tag, r.length, val), base, arr)
             ELSE f.result

\* The bytes the caller writes into its buffer.
OverwriteBytes == {0, 255}

\* buf[i] = x by the caller, after Unmarshal(buf) has returned a mapping.
Overwrite ==
    /\ caller = "decode"
    /\ pc = "done"
    /\ ret.err = NoError
    /\ \E i \in DOMAIN data : \E x \in OverwriteBytes \ {data[i]} :
          /\ data' = [data EXCEPT ![i] = x]
          /\ ret' = [ret EXCEPT !.val = Shares(Frame(data), 0, data')]
    /\ pc' = "overwritten"
    /\ UNCHANGED <<symtab, out, rnd, uuid>>
    /\ UNCHANGED <<caller, ival, ofs, iret, values, mret, stack>>

NextAlias == NextUnmarshal \/ Overwrite

SpecAlias == InitUnmarshal /\ [][NextAlias]_vars

\* C16: the mapping Unmarshal returns shares no storage with the input
\* buffer: when the caller overwrites a byte of the buffer after the call
\* has returned, every decoded value, the Bytes values and the nested
\* mappings included, is what it was.
C16_OwnsStorage ==
    [][(caller = "decode" /\ pc = "done" /\ pc' = "overwritten")
          => ret'.val = ret.val]_vars

\* The mapping that Unmarshal returned is the one read off the buffer as it
\* was during the call.
SharesAtReturn ==
    (caller = "decode" /\ pc = "done" /\ ret.err = NoError) =>
        ret.val = Shares(Frame(data), 0, data)

====
